---- MODULE Spec2Model ----
(***************************************************************************)
(* A model of watch_nevada_secret.py: the cross-process API rate limiter   *)
(* (api_rate_guard), the fetchers with their retry loop, the ray-casting   *)
(* geofence, the anomaly rules and the per-cycle contact tracker of main.  *)
(*                                                                         *)
(* Times are integers in centiseconds (1.05 s = 105).  An optional value   *)
(* (Python's None or a value) is the empty or the one-element sequence.    *)
(***************************************************************************)
EXTENDS Integers, Sequences, FiniteSets, TLC

None == <<>>
Some(v) == <<v>>
IsNone(o) == o = <<>>
IsSome(o) == o # <<>>
Val(o) == o[1]

Abs(n) == IF n < 0 THEN -n ELSE n

(***************************************************************************)
(* Program constants.                                                      *)
(***************************************************************************)
RATE_MIN_CS == 105
HTTP_RETRIES == 2
HTTP_BACKOFF_CS == 200

(***************************************************************************)
(* Bounds of the model.                                                    *)
(***************************************************************************)
NumProcs == 2
TickSmall == 35

Procs == 1..NumProcs

VARIABLES
    \* ---- rate limiter and fetchers (one entry per process) ----
    lockHolder, \* the process holding flock(LOCK_EX) on the lock file, 0 if free
    lockFile,   \* the timestamp stored in /tmp/adsbfi_api.lock, kept as its age
                \* (time.time() minus the timestamp); None if absent or unparsable
    active,     \* the processes that are running
    feed,       \* the response bodies each endpoint may answer with (none: the endpoint is not called)
    pc,         \* each process's position in fetch_tile / fetch_military
    kind,       \* "tile" or "mil": which fetcher the process is in
    wake,       \* the time left of a sleeping process's time.sleep
    attempt,    \* the loop variable of the retry loop: the attempts that have failed so far
    result,     \* the value the fetcher returns (None before it returns)
    escaped,    \* an exception has left the fetcher
    okBody,     \* history: the body of the successful response of the current call
    reqSince,   \* history: upstream requests the process issued since its last return of api_rate_guard
    retAge,     \* history: the time since the last return of api_rate_guard, over all processes
    retGap,     \* history: the time between the last two returns of api_rate_guard
    writeGap,   \* history: the age the stored timestamp had when the last write replaced it
    \* ---- the geofence as a function of its arguments ----
    gLat,       \* in_any_polygon's lat (None: missing)
    gLon,       \* in_any_polygon's lon
    gPolys,     \* in_any_polygon's polygons
    gEach,      \* point_in_polygon of the point and each polygon, None before the call
    gAny,       \* in_any_polygon's result, None before the call
    \* ---- the anomaly rules as a function of their arguments ----
    aAc,        \* detect_anomalies' ac
    aPrev,      \* detect_anomalies' prev (None: no previous sample)
    aDt,        \* detect_anomalies' dt_sec (None: no elapsed time)
    aNotes,     \* detect_anomalies' result, None before the call
    \* ---- main: one instance's polling loop ----
    polygons_file,    \* args.polygons_file: None, or the document at that path
    polygons,         \* the geofence the cycles use
    hex_patterns,     \* load_hex_filters' patterns
    hex_filter_mode,  \* args.hex_filter_mode
    notify_telegram,  \* args.notify_telegram
    csvFile,          \* the contact store on disk: whether the file exists, and its lines
    seen_csv,         \* the keys of main's seen_csv (its values are never read)
    seen_runtime,     \* main's seen_runtime: each hex's last sample, None if it has none
    last_poll_time,   \* main's last_poll_time, kept as its age (time.time() minus it); None as in main
    mpc,              \* main's position in the cycle: "tiles", "mil", "process", "sleep"
    tileIdx,          \* fetch_all_tiles' position in TILES
    merged,           \* fetch_all_tiles' merged
    raw,              \* main's raw
    cycle,            \* the cycles begun, over all runs
    runs,             \* the restarts of the process
    processed,        \* history: what the last cycle's loop did for each hex of by_hex
    sent,             \* history: the texts the last cycle gave to send_telegram
    new_rows,         \* the last cycle's new_rows
    inCount,          \* history: the raw records of this cycle's responses carrying each hex (2: two or more)
    procCount,        \* history: the cycles of this run in which each hex was in by_hex
    rowsAtStart,      \* history: the number of lines of the store when this run started
    appendFailed,     \* history: an append of this run has failed
    firstCycle,       \* history: the cycle is the first one since the process started
    seenCycle,        \* history: the cycle in which each hex's sample of seen_runtime was observed (0: none)
    horizon,          \* the number of cycles the process is followed for
    unsavedAt,        \* history: the first cycle of this run in which a row queued for each hex was not written (0: none)
    firstTile,        \* history: the first record of this cycle's tile responses carrying each hex (None: none)
    \* ---- the end of a cycle as a function of its arguments ----
    interval,   \* args.interval, in seconds
    elapsed,    \* time.time() - t0 at the end of the cycle (None: no cycle)
    to_sleep,   \* main's to_sleep, in seconds, None before it is computed
    next_t0     \* history: the next cycle's t0, counted from this cycle's t0 (None: not begun)

rlVars == <<lockHolder, lockFile, active, feed, pc, kind, wake, attempt, result,
            escaped, okBody, reqSince, retAge, retGap, writeGap>>

geoVars == <<gLat, gLon, gPolys, gEach, gAny>>

anVars == <<aAc, aPrev, aDt, aNotes>>

cfgVars == <<polygons_file, polygons, hex_patterns, hex_filter_mode, notify_telegram>>
cyVars == <<cfgVars, csvFile, seen_csv, seen_runtime, last_poll_time, mpc, tileIdx,
            merged, raw, cycle, runs, processed, sent, new_rows, inCount, procCount,
            rowsAtStart, appendFailed, firstCycle, seenCycle, horizon, unsavedAt, firstTile>>

slVars == <<interval, elapsed, to_sleep, next_t0>>

vars == <<rlVars, geoVars, anVars, cyVars, slVars>>

\* what the actions of each part leave alone
nonRL == <<geoVars, anVars, cyVars, slVars>>
nonGeo == <<rlVars, anVars, cyVars, slVars>>
nonAn == <<rlVars, geoVars, cyVars, slVars>>
nonCy == <<rlVars, geoVars, anVars, slVars>>
nonSl == <<rlVars, geoVars, anVars, cyVars>>

(***************************************************************************)
(* The clock.  Every time the model keeps is relative to the present: an   *)
(* age (time since an event) or a remaining sleep.  The code compares an   *)
(* age with 1.05 s only, so an age stops growing there.                    *)
(***************************************************************************)
Min(a, b) == IF a < b THEN a ELSE b
Max(a, b) == IF a > b THEN a ELSE b
Older(age, d) == IF IsNone(age) THEN None ELSE Some(Min(RATE_MIN_CS, Val(age) + d))

(***************************************************************************)
(* Raw feed records: JSON objects of the upstream feed.  A numeric field   *)
(* holds a JSON value: a number, null (or the key is missing), or a string *)
(* that is no number.  hex is the string under "hex", "" when missing.     *)
(* military stands for any of the flags military, isMil, mil and dbFlags.  *)
(* A numeric field can also hold Infinity, which Python's json reads as    *)
(* float("inf").  obj tells whether the record is a JSON object at all,    *)
(* hex_num whether the value under "hex" is a non-zero number, not a       *)
(* string.                                                                 *)
(***************************************************************************)
JNum(v) == [t |-> "num", v |-> v]
JNull == [t |-> "null", v |-> 0]
JStr == [t |-> "str", v |-> 0]
JInf == [t |-> "inf", v |-> 0]

Raw(hex, lat, lon, alt, gs, mil) ==
    [hex |-> hex, lat |-> lat, lon |-> lon, alt_baro |-> alt, gs |-> gs,
     military |-> mil, force_mil |-> FALSE, obj |-> TRUE, hex_num |-> FALSE]

\* a civil aircraft inside the geofence, nothing unusual
RawA == Raw("a1", JNum(1), JNum(1), JNum(10000), JNum(400), FALSE)
\* the same aircraft (hex in upper case) faster and higher
RawA2 == Raw("A1", JNum(1), JNum(1), JNum(18100), JNum(700), FALSE)
\* the same aircraft without a position
RawA3 == Raw("a1", JNull, JNum(1), JStr, JNum(400), FALSE)
\* a military aircraft inside the geofence
RawB == Raw("b2", JNum(9), JNum(9), JNum(10000), JNum(400), TRUE)
\* an aircraft in the hole of the geofence
RawC == Raw("c3", JNum(5), JNum(5), JNum(10000), JNum(400), FALSE)
\* a record without hex
RawX == Raw("", JNum(1), JNum(1), JNum(10000), JNum(400), FALSE)
\* a1 with an altitude that is a string ("ground") and a null ground speed
RawStrFields == Raw("a1", JNum(1), JNum(1), JStr, JNull, FALSE)
\* a record that is no object (a string, a number, null)
RawNotObject == [Raw("", JNull, JNull, JNull, JNull, FALSE) EXCEPT !.obj = FALSE]
\* a record whose hex is a number
RawHexNum == [Raw("", JNum(1), JNum(1), JNum(10000), JNum(400), FALSE) EXCEPT !.hex_num = TRUE]
\* a1 with the altitude Infinity
RawAltInf == Raw("a1", JNum(1), JNum(1), JInf, JNum(400), FALSE)

(***************************************************************************)
(* Response bodies.  shape "aircraft": an object whose "aircraft" is the   *)
(* list recs; "nokey": an object without "aircraft" (or with null);        *)
(* "notdict": a JSON value that is no object; "ac": an object whose "ac"   *)
(* is the list recs; "list": the bare list recs; "acbad": an object whose   *)
(* "ac" is no list (null); "noac": any other value.                        *)
(***************************************************************************)
Body(shape, recs) == [shape |-> shape, recs |-> recs]

RecLists == {<<>>, <<RawA>>, <<RawA2, RawB>>}

TileBodies == {Body("aircraft", r) : r \in RecLists} \cup {Body("nokey", <<>>), Body("notdict", <<>>)}
MilBodies == {Body("ac", r) : r \in RecLists} \cup {Body("list", r) : r \in RecLists}
                \cup {Body("acbad", <<>>), Body("noac", <<>>)}

\* What an attempt's try block yields: a returned value, or an exception
Returned(v) == [exc |-> FALSE, val |-> v]
Raised == [exc |-> TRUE, val |-> <<>>]

\* fetch_tile's try block after the transport succeeded: j.get("aircraft", []) or []
tile_body(b) ==
    CASE b.shape = "aircraft" -> Returned(b.recs)
      [] b.shape = "nokey" -> Returned(<<>>)
      [] OTHER -> Raised

\* fetch_military tags every record of the feed
force_mil_all(recs) ==
    [i \in 1..Len(recs) |-> IF recs[i].obj THEN [recs[i] EXCEPT !.force_mil = TRUE] ELSE recs[i]]

\* fetch_military's try block after the transport succeeded
mil_body(b) ==
    CASE b.shape \in {"ac", "list"} -> Returned(force_mil_all(b.recs))
      [] b.shape = "acbad" -> Raised         \* "for ac in data" raises
      [] OTHER -> Returned(<<>>)

try_body(k, b) == IF k = "tile" THEN tile_body(b) ELSE mil_body(b)

\* a fetcher that gives up at the first failure
retry_allowed_never(a) == a < 0

\* a pause of the same length before every retry
backoff_flat(a) == HTTP_BACKOFF_CS

\* if attempt < HTTP_RETRIES: time.sleep(HTTP_BACKOFF * (attempt + 1))
retry_allowed(a) == a < HTTP_RETRIES
backoff(a) == HTTP_BACKOFF_CS * (a + 1)

(***************************************************************************)
(* api_rate_guard                                                          *)
(***************************************************************************)
\* delta = now - last, where last = float(f.read().strip()) and 0.0 when that raises:
\* time.time() counts from 1970, so a last of 0.0 gives a delta far above 1.05
guard_delta(content) == IF IsNone(content) THEN RATE_MIN_CS ELSE Val(content)

guard_wait_never(delta) == 0

\* the time to sleep under the lock: 1.05 - delta when delta < 1.05
guard_wait(delta) == IF delta < RATE_MIN_CS THEN RATE_MIN_CS - delta ELSE 0

\* with open(lockfile, "a+"): fcntl.flock(f, LOCK_EX), which blocks while another holds it
Guard_Lock(p) ==
    /\ pc[p] = "lock"
    /\ lockHolder = 0
    /\ lockHolder' = p
    /\ pc' = [pc EXCEPT ![p] = "read"]
    /\ UNCHANGED <<lockFile, active, feed, kind, wake, attempt, result, escaped,
                   okBody, reqSince, retAge, retGap, writeGap, nonRL>>

\* read the stored timestamp, take the time, and start the sleep if one is due
Guard_Read(p) ==
    /\ pc[p] = "read"
    /\ LET w == guard_wait(guard_delta(lockFile))
       IN  /\ wake' = [wake EXCEPT ![p] = w]
           /\ pc' = [pc EXCEPT ![p] = IF w > 0 THEN "gsleep" ELSE "write"]
    /\ UNCHANGED <<lockHolder, lockFile, active, feed, kind, attempt, result, escaped,
                   okBody, reqSince, retAge, retGap, writeGap, nonRL>>

\* time.sleep(1.05 - delta) ends, not before the time asked for
Guard_Wake(p) ==
    /\ pc[p] = "gsleep"
    /\ wake[p] = 0
    /\ pc' = [pc EXCEPT ![p] = "write"]
    /\ UNCHANGED <<lockHolder, lockFile, active, feed, kind, wake, attempt, result,
                   escaped, okBody, reqSince, retAge, retGap, writeGap, nonRL>>

\* f.seek(0); f.truncate(); f.write(str(time.time())); f.flush()
Guard_Write(p) ==
    /\ pc[p] = "write"
    /\ lockFile' = Some(0)
    /\ writeGap' = lockFile
    /\ pc' = [pc EXCEPT ![p] = "unlock"]
    /\ UNCHANGED <<lockHolder, active, feed, kind, wake, attempt, result, escaped,
                   okBody, reqSince, retAge, retGap, nonRL>>

\* fcntl.flock(f, LOCK_UN)
Guard_Unlock(p) ==
    /\ pc[p] = "unlock"
    /\ lockHolder' = 0
    /\ pc' = [pc EXCEPT ![p] = "ret"]
    /\ UNCHANGED <<lockFile, active, feed, kind, wake, attempt, result, escaped,
                   okBody, reqSince, retAge, retGap, writeGap, nonRL>>

\* the with block closes the file and api_rate_guard returns to the fetcher
Guard_Return(p) ==
    /\ pc[p] = "ret"
    /\ pc' = [pc EXCEPT ![p] = "attempt"]
    /\ retGap' = retAge
    /\ retAge' = Some(0)
    /\ reqSince' = [reqSince EXCEPT ![p] = 0]
    /\ UNCHANGED <<lockHolder, lockFile, active, feed, kind, wake, attempt, result,
                   escaped, okBody, writeGap, nonRL>>

lock_kept_on_crash(p) == lockHolder

\* the kernel closes a dead process's files, and closing the file drops its flock
lock_after_crash(p) == IF lockHolder = p THEN 0 ELSE lockHolder

\* the process dies somewhere in api_rate_guard; when it dies between f.truncate()
\* and f.flush() the lock file is left empty
Guard_Crash(p) ==
    /\ pc[p] \in {"lock", "read", "gsleep", "write", "unlock", "ret"}
    /\ pc' = [pc EXCEPT ![p] = "crashed"]
    /\ wake' = [wake EXCEPT ![p] = 0]
    /\ lockHolder' = lock_after_crash(p)
    /\ lockFile' \in (IF pc[p] = "write" THEN {lockFile, None} ELSE {lockFile})
    /\ UNCHANGED <<active, feed, kind, attempt, result, escaped, okBody, reqSince,
                   retAge, retGap, writeGap, nonRL>>

(***************************************************************************)
(* fetch_tile / fetch_military                                             *)
(***************************************************************************)
\* the caller enters a fetcher, whose first statement is api_rate_guard()
Fetch_Call(p) ==
    /\ p \in active
    /\ pc[p] = "idle"
    /\ \E k \in {"tile", "mil"} :
         /\ feed[k] # {}
         /\ kind' = [kind EXCEPT ![p] = k]
    /\ pc' = [pc EXCEPT ![p] = "lock"]
    /\ attempt' = [attempt EXCEPT ![p] = 0]
    /\ result' = [result EXCEPT ![p] = None]
    /\ okBody' = [okBody EXCEPT ![p] = None]
    /\ UNCHANGED <<lockHolder, lockFile, active, feed, wake, escaped, reqSince,
                   retAge, retGap, writeGap, nonRL>>

\* the except branch of an attempt, and the statements after the loop
attempt_failed(p) ==
    /\ attempt' = [attempt EXCEPT ![p] = @ + 1]
    /\ okBody' = okBody
    /\ IF retry_allowed(attempt[p])
         THEN /\ wake' = [wake EXCEPT ![p] = backoff(attempt[p])]
              /\ pc' = [pc EXCEPT ![p] = "backoff"]
              /\ result' = result
         ELSE /\ wake' = wake
              /\ pc' = [pc EXCEPT ![p] = "done"]
              /\ result' = [result EXCEPT ![p] = Some(<<>>)]

\* one pass of the retry loop: requests.get, raise_for_status, r.json and the rest of try
Fetch_Attempt(p) ==
    /\ pc[p] = "attempt"
    /\ reqSince' = [reqSince EXCEPT ![p] = @ + 1]
    /\ \/ attempt_failed(p)                         \* the transport raises
       \/ \E b \in feed[kind[p]] :
            LET t == try_body(kind[p], b)
            IN  IF t.exc
                  THEN attempt_failed(p)
                  ELSE /\ result' = [result EXCEPT ![p] = Some(t.val)]
                       /\ okBody' = [okBody EXCEPT ![p] = Some(b)]
                       /\ pc' = [pc EXCEPT ![p] = "done"]
                       /\ UNCHANGED <<wake, attempt, nonRL>>
    /\ UNCHANGED <<lockHolder, lockFile, active, feed, kind, escaped, retAge, retGap, writeGap, nonRL>>

\* time.sleep(HTTP_BACKOFF * (attempt + 1)) ends, and the loop goes on
Fetch_BackoffWake(p) ==
    /\ pc[p] = "backoff"
    /\ wake[p] = 0
    /\ pc' = [pc EXCEPT ![p] = "attempt"]
    /\ UNCHANGED <<lockHolder, lockFile, active, feed, kind, wake, attempt, result,
                   escaped, okBody, reqSince, retAge, retGap, writeGap, nonRL>>

\* the fetcher has returned and its caller, having taken the result, goes on
Fetch_Return(p) ==
    /\ pc[p] = "done"
    /\ pc' = [pc EXCEPT ![p] = "idle"]
    /\ attempt' = [attempt EXCEPT ![p] = 0]
    /\ result' = [result EXCEPT ![p] = None]
    /\ okBody' = [okBody EXCEPT ![p] = None]
    /\ UNCHANGED <<lockHolder, lockFile, active, feed, kind, wake,
                   escaped, reqSince, retAge, retGap, writeGap, nonRL>>

\* time passes: a little, or up to the end of some process's sleep
Tick ==
    /\ \E d \in {TickSmall} \cup {wake[p] : p \in {q \in Procs : wake[q] > 0}} :
         /\ wake' = [p \in Procs |-> Max(0, wake[p] - d)]
         /\ lockFile' = Older(lockFile, d)
         /\ retAge' = Older(retAge, d)
    /\ UNCHANGED <<lockHolder, active, feed, pc, kind, attempt, result,
                   escaped, okBody, reqSince, retGap, writeGap, nonRL>>

(***************************************************************************)
(* Point-in-polygon (ray casting).  A point is <<lat, lon>>, a ring a      *)
(* sequence of points, a polygon a sequence of rings (ring 1 the exterior, *)
(* the others holes).  Coordinates are integers here.                      *)
(***************************************************************************)
\* x < (xj - xi) * (y - yi) / (yj - yi + 1e-12) + xi, for yj # yi.  With L = x - xi,
\* N = (xj - xi) * (y - yi) and D = yj - yi the test is L < N / (D + 1e-12): where
\* L * D # N the 1e-12 changes nothing, and where L * D = N (the point is on the
\* edge's line) the quotient moves towards zero for D > 0 and away from it for D < 0,
\* which in both cases makes the test true exactly for N < 0.
ray_left_of(x, y, xi, yi, xj, yj) ==
    LET L == x - xi
        N == (xj - xi) * (y - yi)
        D == yj - yi
    IN  IF L * D = N THEN N < 0
        ELSE IF D > 0 THEN L * D < N ELSE L * D > N

\* the condition under which an edge toggles inside
edge_toggles(x, y, xi, yi, xj, yj) ==
    /\ (yi > y) # (yj > y)
    /\ ray_left_of(x, y, xi, yi, xj, yj)

\* ring[(i + 1) % n], with the 1-based index of a sequence
next_vertex(ring, i) == ring[(i % Len(ring)) + 1]

RECURSIVE ring_loop(_, _, _, _)
\* for i in range(n), from the i-th vertex on, with the value of inside so far
ring_loop(point, ring, i, inside) ==
    IF i > Len(ring) THEN inside
    ELSE LET x == point[2]
             y == point[1]
             yi == ring[i][1]
             xi == ring[i][2]
             yj == next_vertex(ring, i)[1]
             xj == next_vertex(ring, i)[2]
         IN  ring_loop(point, ring, i + 1,
                       IF edge_toggles(x, y, xi, yi, xj, yj) THEN ~inside ELSE inside)

point_in_ring(point, ring) == ring_loop(point, ring, 1, FALSE)

\* for hole in polygon[1:]: if point_in_ring(point, hole): return False
in_some_hole(point, polygon) ==
    \E k \in 2..Len(polygon) : point_in_ring(point, polygon[k])

\* a containment test that forgets the holes
point_in_polygon_exterior_only(point, polygon) ==
    IF polygon = <<>> THEN FALSE
    ELSE point_in_ring(point, polygon[1])

point_in_polygon(point, polygon) ==
    IF polygon = <<>> THEN FALSE
    ELSE IF ~point_in_ring(point, polygon[1]) THEN FALSE
    ELSE IF in_some_hole(point, polygon) THEN FALSE
    ELSE TRUE

RECURSIVE any_from(_, _, _)
\* for poly in polys, from the i-th on: if point_in_polygon(pt, poly): return True
any_from(pt, polys, i) ==
    IF i > Len(polys) THEN FALSE
    ELSE IF point_in_polygon(pt, polys[i]) THEN TRUE
    ELSE any_from(pt, polys, i + 1)

\* a loop that returns the answer of the first polygon
in_any_polygon_first_only(lat, lon, polys) ==
    IF IsNone(lat) \/ IsNone(lon) THEN FALSE
    ELSE IF polys = <<>> THEN FALSE
    ELSE point_in_polygon(<<Val(lat), Val(lon)>>, polys[1])

in_any_polygon(lat, lon, polys) ==
    IF IsNone(lat) \/ IsNone(lon) THEN FALSE
    ELSE any_from(<<Val(lat), Val(lon)>>, polys, 1)

(***************************************************************************)
(* The rings and polygons the geofence is tried on, each ring with the     *)
(* region it encloses stated directly.                                     *)
(***************************************************************************)
CoordMin == 0 - 1
CoordMax == 11
Coords == CoordMin..CoordMax

Square == << <<0, 0>>, <<0, 10>>, <<10, 10>>, <<10, 0>> >>
SquareClosed == Square \o << <<0, 0>> >>
SquareReversed == << <<10, 0>>, <<10, 10>>, <<0, 10>>, <<0, 0>> >>
Hole == << <<4, 4>>, <<4, 6>>, <<6, 6>>, <<6, 4>> >>
Hole2 == << <<1, 1>>, <<1, 3>>, <<3, 3>>, <<3, 1>> >>
LShape == << <<0, 0>>, <<0, 10>>, <<4, 10>>, <<4, 4>>, <<10, 4>>, <<10, 0>> >>
Triangle == << <<0, 0>>, <<0, 10>>, <<10, 0>> >>

Within(lo, v, hi) == lo < v /\ v < hi

\* the open region a ring encloses
Encloses(ring, la, lo) ==
    CASE ring \in {Square, SquareClosed, SquareReversed} -> Within(0, la, 10) /\ Within(0, lo, 10)
      [] ring = Hole -> Within(4, la, 6) /\ Within(4, lo, 6)
      [] ring = Hole2 -> Within(1, la, 3) /\ Within(1, lo, 3)
      [] ring = LShape -> \/ Within(0, la, 4) /\ Within(0, lo, 10)
                          \/ Within(0, la, 10) /\ Within(0, lo, 4)
      [] ring = Triangle -> la > 0 /\ lo > 0 /\ la + lo < 10

\* the point lies on the segment from a to b
OnSegment(la, lo, a, b) ==
    /\ (b[1] - a[1]) * (lo - a[2]) = (b[2] - a[2]) * (la - a[1])
    /\ Min(a[1], b[1]) <= la /\ la <= Max(a[1], b[1])
    /\ Min(a[2], b[2]) <= lo /\ lo <= Max(a[2], b[2])

OnRingEdge(ring, la, lo) ==
    \E i \in 1..Len(ring) : OnSegment(la, lo, ring[i], ring[(i % Len(ring)) + 1])

OnPolygonEdge(polygon, la, lo) ==
    \E k \in 1..Len(polygon) : OnRingEdge(polygon[k], la, lo)

Polygons ==
    { <<>>, <<Square>>, <<SquareClosed>>, <<SquareReversed>>, <<Square, Hole>>,
      <<Square, Hole, Hole2>>, <<LShape>>, <<LShape, Hole2>>, <<Triangle>> }

MaxPolys == 2
PolygonSets == UNION {[1..n -> Polygons] : n \in 0..MaxPolys}

\* the geofence is applied to a point
Geo_Contains ==
    /\ IsNone(gAny)
    /\ gAny' = Some(in_any_polygon(gLat, gLon, gPolys))
    /\ gEach' = IF IsNone(gLat) \/ IsNone(gLon) THEN Some(<<>>)
                ELSE Some([i \in 1..Len(gPolys) |->
                            point_in_polygon(<<Val(gLat), Val(gLon)>>, gPolys[i])])
    /\ UNCHANGED <<gLat, gLon, gPolys, nonGeo>>

OptCoords == {None} \cup {Some(c) : c \in Coords}

InitGeo ==
    /\ gLat \in OptCoords
    /\ gLon \in OptCoords
    /\ gPolys \in PolygonSets
    /\ gEach = None
    /\ gAny = None

\* the geofence is not in use
IdleGeo ==
    /\ gLat = None
    /\ gLon = None
    /\ gPolys = <<>>
    /\ gEach = None
    /\ gAny = None

(***************************************************************************)
(* Aircraft (the samples) and to_aircraft.  Of the dataclass's fields the  *)
(* model keeps those the geofence, the anomaly rules and the tracker read; *)
(* flight, reg, model_t, model_desc only appear in texts, ts is not read.  *)
(***************************************************************************)
Aircraft(hex, lat, lon, alt, gs, mil) ==
    [hex |-> hex, lat |-> lat, lon |-> lon, alt_baro |-> alt, gs |-> gs, is_mil |-> mil]

\* str.lower() on the hex codes of the model
Lower(h) == CASE h = "A1" -> "a1" [] h = "B2" -> "b2" [] h = "C3" -> "c3" [] OTHER -> h

\* (ac.get("hex") or "").lower() raises AttributeError: ac has no get, or the value
\* under "hex" has no lower
hex_raises(ac) == ~ac.obj \/ ac.hex_num

\* int(val) raises OverflowError for an infinite float, which safe_int does not catch
safe_int_raises(j) == j.t = "inf"

\* to_aircraft raises
to_aircraft_raises(ac) == hex_raises(ac) \/ safe_int_raises(ac.alt_baro)

\* float(val), None on TypeError or ValueError
safe_float(j) == IF j.t = "num" THEN Some(j.v) ELSE None

\* int(val), None on TypeError or ValueError
safe_int(j) == IF j.t = "num" THEN Some(j.v) ELSE None

to_aircraft(ac) ==
    Aircraft(Lower(ac.hex), safe_float(ac.lat), safe_float(ac.lon), safe_int(ac.alt_baro),
             safe_float(ac.gs), ac.force_mil \/ ac.military)

(***************************************************************************)
(* detect_anomalies.  A note is kept by its wording without the number.    *)
(* dt_sec is in centiseconds, so (dalt / dt_sec) * 60 is                   *)
(* dalt * 6000 / dt; the comparison with MAX_VS_FPM is made on the exact   *)
(* quotient (the code's is a float's, which differs in the last bit).      *)
(***************************************************************************)
MAX_GS_KT == 650
MIN_GS_KT == 35
MIN_ALT_FT == 500
MAX_ALT_FT == 60000
MAX_VS_FPM == 8000
MAX_DGS_KTS == 250

gs_rule(ac) ==
    IF IsSome(ac.gs)
      THEN IF Val(ac.gs) > MAX_GS_KT THEN <<"GS alta">>
           ELSE IF Val(ac.gs) < MIN_GS_KT THEN <<"GS bassa">>
           ELSE <<>>
      ELSE <<>>

\* an altitude rule nested under the ground speed's "is not None"
alt_rule_under_gs(ac) ==
    IF IsSome(ac.gs) /\ IsSome(ac.alt_baro)
      THEN IF Val(ac.alt_baro) > MAX_ALT_FT THEN <<"ALT alta">>
           ELSE IF Val(ac.alt_baro) < MIN_ALT_FT THEN <<"ALT bassa">>
           ELSE <<>>
      ELSE <<>>

alt_rule(ac) ==
    IF IsSome(ac.alt_baro)
      THEN IF Val(ac.alt_baro) > MAX_ALT_FT THEN <<"ALT alta">>
           ELSE IF Val(ac.alt_baro) < MIN_ALT_FT THEN <<"ALT bassa">>
           ELSE <<>>
      ELSE <<>>

\* delta rules that take any elapsed time, without "dt_sec > 0"
delta_guard_any_elapsed(prev, dt_sec) == IsSome(prev) /\ IsSome(dt_sec)

\* if prev and dt_sec and dt_sec > 0
delta_guard(prev, dt_sec) == IsSome(prev) /\ IsSome(dt_sec) /\ Val(dt_sec) # 0 /\ Val(dt_sec) > 0

dgs_rule(ac, p) ==
    IF IsSome(ac.gs) /\ IsSome(p.gs) /\ Abs(Val(ac.gs) - Val(p.gs)) > MAX_DGS_KTS
      THEN <<"dGS anomalo">> ELSE <<>>

\* abs((dalt / dt_sec) * 60.0) > MAX_VS_FPM, for dt > 0
vs_rule(ac, p, dt) ==
    IF /\ IsSome(ac.alt_baro) /\ IsSome(p.alt_baro)
       /\ Abs(Val(ac.alt_baro) - Val(p.alt_baro)) * 60 * 100 > MAX_VS_FPM * dt
      THEN <<"VS anomala">> ELSE <<>>

detect_anomalies(ac, prev, dt_sec) ==
    gs_rule(ac) \o alt_rule(ac)
    \o (IF delta_guard(prev, dt_sec)
          THEN dgs_rule(ac, Val(prev)) \o vs_rule(ac, Val(prev), Val(dt_sec))
          ELSE <<>>)

\* the samples and the elapsed times the rules are tried on
GsValues == {None, Some(0), Some(34), Some(35), Some(285), Some(650), Some(651)}
AltValues == {None, Some(400), Some(500), Some(10000), Some(17900), Some(18100), Some(60000), Some(61000)}
DtValues == {None, Some(0 - 6000), Some(0), Some(100), Some(6000)}
Samples == {Aircraft("a1", Some(1), Some(1), a, g, FALSE) : a \in AltValues, g \in GsValues}

\* the rules are applied to a sample
Anom_Classify ==
    /\ aAc \in Samples
    /\ IsNone(aNotes)
    /\ aNotes' = Some(detect_anomalies(aAc, aPrev, aDt))
    /\ UNCHANGED <<aAc, aPrev, aDt, nonAn>>

InitAnom ==
    /\ aAc \in Samples
    /\ aPrev \in {None} \cup {Some(x) : x \in Samples}
    /\ aDt \in DtValues
    /\ aNotes = None

\* the rules are not in use
IdleAnom ==
    /\ aAc = Aircraft("", None, None, None, None, FALSE)
    /\ aPrev = None
    /\ aDt = None
    /\ aNotes = None

(***************************************************************************)
(* main: the polling loop of one instance.                                 *)
(***************************************************************************)
MaxCycles == 2
MaxRuns == 1
\* the cycles of a process followed for longer, on a feed of one aircraft
LongCycles == 3

\* the tiles (lat and lon in thousandths of a degree, range in nm); the cycles of
\* the model poll the first NumTiles of the six
NumTiles == 2
ALL_TILES == << <<37246, 0 - 115800, 40>>, <<37790, 0 - 116780, 45>>, <<37100, 0 - 115850, 45>>,
                <<37600, 0 - 115200, 45>>, <<36800, 0 - 115200, 40>>, <<36300, 0 - 115030, 30>> >>
TILES == SubSeq(ALL_TILES, 1, Min(NumTiles, Len(ALL_TILES)))

Hexes == {"a1", "b2", "c3"}

\* the lists of records the endpoints answer with during the cycles
TileLists == {<<RawA>>, <<RawA2>>, <<RawB>>, <<RawA3, RawC>>, <<RawX, RawA>>}
MilLists == {<<RawA>>, <<RawB, RawB>>}

\* what a fetcher can return: the empty list when every attempt failed, or what
\* the try block makes of a response body
fetch_returns(k, bodies) ==
    {<<>>} \cup {try_body(k, b).val : b \in {x \in bodies : ~try_body(k, x).exc}}

\* fetch_all_tiles' loop over acs raises
merge_raises(acs) == \E i \in 1..Len(acs) : hex_raises(acs[i])

\* a merge without the seen set: every record with a hex is appended
merge_tile_keep_all(m, acs, i) ==
    m \o SelectSeq(SubSeq(acs, i, Len(acs)), LAMBDA ac : Lower(ac.hex) # "")

RECURSIVE merge_tile(_, _, _)
\* for ac in acs, from the i-th on: hx = (ac.get("hex") or "").lower();
\* if hx and hx not in seen: seen.add(hx); merged.append(ac)
merge_tile(m, acs, i) ==
    IF i > Len(acs) THEN m
    ELSE LET hx == Lower(acs[i].hex)
             seen == {Lower(m[j].hex) : j \in 1..Len(m)}
         IN  merge_tile(IF hx # "" /\ hx \notin seen THEN Append(m, acs[i]) ELSE m, acs, i + 1)

\* fnmatch.fnmatch on the patterns of the model
FnMatch(hx, pat) ==
    CASE pat = "*" -> TRUE
      [] pat = "a*" -> hx = "a1"
      [] OTHER -> hx = pat

match_hex(hex_code, patterns) ==
    \E i \in 1..Len(patterns) : FnMatch(Lower(hex_code), patterns[i])

\* the list comprehensions of main, as the records that pass
passes_polygons(ac) == in_any_polygon(ac.lat, ac.lon, polygons)
passes_hex_filter(ac) ==
    IF hex_patterns # <<>>
      THEN IF hex_filter_mode = "include" THEN match_hex(ac.hex, hex_patterns)
           ELSE ~match_hex(ac.hex, hex_patterns)
      ELSE TRUE

\* aircraft, after parsing and the two filters
filtered(rs) ==
    SelectSeq([i \in 1..Len(rs) |-> to_aircraft(rs[i])],
              LAMBDA ac : passes_polygons(ac) /\ passes_hex_filter(ac))

\* by_hex = {ac.hex: ac for ac in aircraft if ac.hex}: the keys in the order of their
\* first occurrence, each with the last of its samples
by_hex_keys(acs) ==
    LET first(i) == acs[i].hex # "" /\ \A j \in 1..(i - 1) : acs[j].hex # acs[i].hex
        idx == SelectSeq([i \in 1..Len(acs) |-> i], first)
    IN  [k \in 1..Len(idx) |-> acs[idx[k]].hex]

by_hex_value(acs, hx) ==
    acs[CHOOSE i \in 1..Len(acs) : acs[i].hex = hx /\ \A j \in (i + 1)..Len(acs) : acs[j].hex # hx]

\* a line of the store: of the ten columns the hex and the note
Row(hex, note) == [hex |-> hex, note |-> note]
HeaderRow == Row("hex", <<"note">>)

\* a loop body whose military row does not test ac.is_mil
rows_of_always_mil(hx, ac, anomalies) ==
    (IF hx \notin seen_csv THEN <<Row(ac.hex, anomalies)>> ELSE <<>>)
    \o <<Row(ac.hex, <<"mil">>)>>

\* the body of "for hx, ac in by_hex.items()" for one hex: what it appends to new_rows
rows_of(hx, ac, anomalies) ==
    (IF hx \notin seen_csv THEN <<Row(ac.hex, anomalies)>> ELSE <<>>)
    \o (IF ac.is_mil THEN <<Row(ac.hex, <<"mil">>)>> ELSE <<>>)

\* a loop body that sends nothing for a military sample
msgs_of_new_only(hx, ac) ==
    IF notify_telegram /\ hx \notin seen_csv
      THEN <<[text |-> "NUOVO CONTATTO", hex |-> hx]>> ELSE <<>>

\* ... and what it gives to send_telegram
msgs_of(hx, ac) ==
    IF notify_telegram
      THEN (IF hx \notin seen_csv THEN <<[text |-> "NUOVO CONTATTO", hex |-> hx]>> ELSE <<>>)
           \o (IF ac.is_mil THEN <<[text |-> "VOLO MILITARE", hex |-> hx]>> ELSE <<>>)
      ELSE <<>>

\* dt_sec = time.time() - last_poll_time, None without a last_poll_time
dt_sec_of(last) == IF IsNone(last) THEN None ELSE Some(Val(last))

\* the time from one cycle's last_poll_time = time.time() to the next cycle's loop
\* over by_hex: the sleep of at least a second and the fetches
CycleTimes == {1000, 6000}

\* must_write_header = not os.path.isfile(csv_path); open(csv_path, "a"); the header,
\* then the rows.  When the open raises, nothing is written.
append_seen_csv(file, rows, outcome) ==
    IF outcome = "ok"
      THEN [exists |-> TRUE,
            rows |-> file.rows \o (IF file.exists THEN <<>> ELSE <<HeaderRow>>) \o rows]
      ELSE file

\* csv.DictReader takes the first line for the column names; hx = (row.get("hex") or "").lower()
load_seen_csv(file) ==
    IF ~file.exists \/ file.rows = <<>> THEN {}
    ELSE IF file.rows[1].hex = "hex"
           THEN {Lower(file.rows[i].hex) : i \in 2..Len(file.rows)} \ {""}
           ELSE {}

Cap2(n) == IF n > 2 THEN 2 ELSE n
Carrying(rs, h) == Cardinality({i \in 1..Len(rs) : Lower(rs[i].hex) = h})

(***************************************************************************)
(* The boundary file.  A document is what json.load gives: shape           *)
(* "unreadable" (open or json.load raises), "FeatureCollection" (a dict of *)
(* that type, items its features), "polygons" (a dict with that key, items *)
(* its polygons, points as (lat, lon)), "other" (any other value).  A      *)
(* feature has its geometry's type and coordinates, points as (lon, lat);  *)
(* gtype "broken" is a feature whose geometry is no object.                *)
(***************************************************************************)
Document(shape, items) == [shape |-> shape, items |-> items]
Feature(gtype, coords) == [gtype |-> gtype, coords |-> coords]

\* [(float(pt[1]), float(pt[0])) for pt in ring], for each ring
rings_lonlat(coords) ==
    [r \in 1..Len(coords) |-> [k \in 1..Len(coords[r]) |-> <<coords[r][k][2], coords[r][k][1]>>]]

\* [(float(pt[0]), float(pt[1])) for pt in ring], for each ring
rings_latlon(poly) ==
    [r \in 1..Len(poly) |-> [k \in 1..Len(poly[r]) |-> <<poly[r][k][1], poly[r][k][2]>>]]

RECURSIVE feature_polys(_, _)
\* the loop over data.get("features", []), from the i-th feature on
feature_polys(feats, i) ==
    IF i > Len(feats) THEN <<>>
    ELSE (CASE feats[i].gtype = "Polygon" -> <<rings_lonlat(feats[i].coords)>>
            [] feats[i].gtype = "MultiPolygon" ->
                 [j \in 1..Len(feats[i].coords) |-> rings_lonlat(feats[i].coords[j])]
            [] OTHER -> <<>>)
         \o feature_polys(feats, i + 1)

load_polygons_from_geojson(doc) ==
    CASE doc.shape = "unreadable" -> Raised
      [] doc.shape = "FeatureCollection" ->
           IF \E i \in 1..Len(doc.items) : doc.items[i].gtype = "broken"
             THEN Raised
             ELSE Returned(feature_polys(doc.items, 1))
      [] doc.shape = "polygons" ->
           Returned([i \in 1..Len(doc.items) |-> rings_latlon(doc.items[i])])
      [] OTHER -> Raised

\* a box of sample_approx_polygons, in hundredths of a degree
box_ring(min_lat, max_lat, min_lon, max_lon) ==
    << <<min_lat, min_lon>>, <<min_lat, max_lon>>, <<max_lat, max_lon>>,
       <<max_lat, min_lon>>, <<min_lat, min_lon>> >>

sample_approx_polygons ==
    << <<box_ring(3705, 3755, 0 - 11615, 0 - 11530)>>,
       <<box_ring(3755, 3810, 0 - 11720, 0 - 11630)>>,
       <<box_ring(3680, 3830, 0 - 11660, 0 - 11500)>>,
       <<box_ring(3650, 3705, 0 - 11640, 0 - 11520)>> >>

\* a ring as GeoJSON writes it: each point (lon, lat)
AsLonLat(ring) == [k \in 1..Len(ring) |-> <<ring[k][2], ring[k][1]>>]

\* the boundary files main is started with
PolygonFiles ==
    {None,
     Some(Document("unreadable", <<>>)),
     Some(Document("other", <<>>)),
     Some(Document("polygons", << <<Square, Hole>> >>)),
     Some(Document("polygons", <<>>)),
     Some(Document("FeatureCollection",
                   <<Feature("Polygon", <<AsLonLat(Triangle)>>),
                     Feature("Point", <<>>),
                     Feature("MultiPolygon", << <<AsLonLat(Square), AsLonLat(Hole)>>,
                                                <<AsLonLat(LShape)>> >>)>>)),
     Some(Document("FeatureCollection", <<Feature("Point", <<>>)>>)),
     Some(Document("FeatureCollection", <<>>)),
     Some(Document("FeatureCollection", <<Feature("broken", <<>>)>>))}

\* main, "carica poligoni": the file's polygons, or the sample ones when no file is
\* given or loading raises
Main_LoadPolygons ==
    /\ mpc = "start"
    /\ polygons' =
          IF IsSome(polygons_file)
            THEN LET got == load_polygons_from_geojson(Val(polygons_file))
                 IN  IF got.exc THEN sample_approx_polygons ELSE got.val
            ELSE sample_approx_polygons
    /\ mpc' = "tiles"
    /\ UNCHANGED <<polygons_file, hex_patterns, hex_filter_mode, notify_telegram, csvFile,
                   seen_csv, seen_runtime, last_poll_time, tileIdx, merged, raw, cycle,
                   runs, processed, sent, new_rows, inCount, procCount, rowsAtStart,
                   appendFailed, firstCycle, seenCycle, horizon, unsavedAt, firstTile, nonCy>>

\* the first record of a response that carries the hex, None if none does
first_carrying(acs, h) ==
    IF \E i \in 1..Len(acs) : Lower(acs[i].hex) = h
      THEN Some(acs[CHOOSE i \in 1..Len(acs) :
                      /\ Lower(acs[i].hex) = h
                      /\ \A j \in 1..(i - 1) : Lower(acs[j].hex) # h])
      ELSE None

\* fetch_all_tiles, one tile: acs = fetch_tile(lat, lon, rng), merged into merged
Main_FetchTile ==
    /\ mpc = "tiles"
    /\ \E acs \in fetch_returns("tile", feed["tile"]) :
         IF merge_raises(acs)
           THEN \* the exception leaves fetch_all_tiles and main: the process ends
                /\ mpc' = "crashed"
                /\ UNCHANGED <<merged, inCount, tileIdx, firstTile>>
           ELSE /\ merged' = merge_tile(merged, acs, 1)
                /\ firstTile' = [h \in Hexes |->
                                   IF IsSome(firstTile[h]) THEN firstTile[h]
                                   ELSE first_carrying(acs, h)]
                /\ inCount' = [h \in Hexes |-> Cap2(inCount[h] + Carrying(acs, h))]
                /\ IF tileIdx < Len(TILES)
                     THEN tileIdx' = tileIdx + 1 /\ mpc' = mpc
                     ELSE tileIdx' = tileIdx /\ mpc' = "mil"
    /\ UNCHANGED <<cfgVars, csvFile, seen_csv, seen_runtime, last_poll_time, raw,
                   cycle, runs, processed, sent, new_rows, procCount, rowsAtStart,
                   appendFailed, firstCycle, seenCycle, horizon, unsavedAt, nonCy>>

\* raw = fetch_all_tiles(); raw += fetch_military()
Main_FetchMilitary ==
    /\ mpc = "mil"
    /\ \E data \in fetch_returns("mil", feed["mil"]) :
         /\ raw' = merged \o data
         /\ inCount' = [h \in Hexes |-> Cap2(inCount[h] + Carrying(data, h))]
    /\ mpc' = "process"
    /\ UNCHANGED <<cfgVars, csvFile, seen_csv, seen_runtime, last_poll_time, tileIdx,
                   merged, cycle, runs, processed, sent, new_rows, procCount, rowsAtStart,
                   appendFailed, firstCycle, seenCycle, horizon, unsavedAt, firstTile, nonCy>>

\* one pass of "for hx, ac in by_hex.items()": the anomalies, the rows and the texts
loop_body(hx, ac, dt) ==
    LET anomalies == detect_anomalies(ac, seen_runtime[hx], dt)
    IN  [hex |-> hx, isNew |-> hx \notin seen_csv, is_mil |-> ac.is_mil,
         notes |-> anomalies, hadPrev |-> IsSome(seen_runtime[hx]), dt |-> dt,
         prevCycle |-> seenCycle[hx],
         rows |-> rows_of(hx, ac, anomalies), msgs |-> msgs_of(hx, ac)]

RECURSIVE loop_from(_, _, _, _)
\* the passes of the loop from the k-th key of by_hex on
loop_from(acs, keys, k, dt) ==
    IF k > Len(keys) THEN <<>>
    ELSE <<loop_body(keys[k], by_hex_value(acs, keys[k]), dt)>> \o loop_from(acs, keys, k + 1, dt)

RECURSIVE all_rows(_, _)
all_rows(did, k) == IF k > Len(did) THEN <<>> ELSE did[k].rows \o all_rows(did, k + 1)

RECURSIVE all_msgs(_, _)
all_msgs(did, k) == IF k > Len(did) THEN <<>> ELSE did[k].msgs \o all_msgs(did, k + 1)

\* the rest of the loop body: parse, filter, by_hex, the loop over by_hex, the append
\* to the store, seen_csv, last_poll_time
Main_Process ==
    /\ mpc = "process"
    /\ \A i \in 1..Len(raw) : ~to_aircraft_raises(raw[i])
    /\ \E acs \in {filtered(raw)} :
       \E keys \in {by_hex_keys(acs)} :
       \E did \in {loop_from(acs, keys, 1, dt_sec_of(last_poll_time))} :
       \E queued \in {all_rows(did, 1)} :
           /\ processed' = [k \in 1..Len(did) |->
                              [hex |-> did[k].hex, isNew |-> did[k].isNew,
                               is_mil |-> did[k].is_mil, notes |-> did[k].notes,
                               hadPrev |-> did[k].hadPrev, dt |-> did[k].dt,
                               prevCycle |-> did[k].prevCycle]]
           /\ sent' = all_msgs(did, 1)
           /\ new_rows' = queued
           /\ seen_runtime' = [h \in Hexes |->
                                 IF \E k \in 1..Len(keys) : keys[k] = h
                                   THEN Some(by_hex_value(acs, h))
                                   ELSE seen_runtime[h]]
           /\ seenCycle' = [h \in Hexes |->
                              IF \E k \in 1..Len(keys) : keys[k] = h THEN cycle ELSE seenCycle[h]]
           /\ procCount' = [h \in Hexes |->
                              IF \E k \in 1..Len(keys) : keys[k] = h
                                THEN procCount[h] + 1 ELSE procCount[h]]
           /\ IF queued # <<>>
                THEN /\ \E outcome \in {"ok", "fail"} :
                          /\ csvFile' = append_seen_csv(csvFile, queued, outcome)
                          /\ appendFailed' = (appendFailed \/ outcome = "fail")
                          /\ unsavedAt' = [h \in Hexes |->
                                             IF /\ outcome = "fail" /\ unsavedAt[h] = 0
                                                /\ \E i \in 1..Len(queued) : queued[i].hex = h
                                               THEN cycle ELSE unsavedAt[h]]
                     /\ seen_csv' = seen_csv \cup {queued[i].hex : i \in 1..Len(queued)}
                ELSE UNCHANGED <<csvFile, appendFailed, unsavedAt, seen_csv>>
    /\ last_poll_time' = Some(0)
    /\ mpc' = "sleep"
    /\ UNCHANGED <<cfgVars, tileIdx, merged, raw, cycle, runs, inCount, rowsAtStart,
                   firstCycle, horizon, firstTile, nonCy>>

\* aircraft = [to_aircraft(ac) for ac in raw] raises: nothing in main catches it,
\* and the process ends
Main_ParseCrash ==
    /\ mpc = "process"
    /\ \E i \in 1..Len(raw) : to_aircraft_raises(raw[i])
    /\ mpc' = "crashed"
    /\ UNCHANGED <<cfgVars, csvFile, seen_csv, seen_runtime, last_poll_time, tileIdx,
                   merged, raw, cycle, runs, processed, sent, new_rows, inCount, procCount,
                   rowsAtStart, appendFailed, firstCycle, seenCycle, horizon, unsavedAt, firstTile, nonCy>>

\* time.sleep(to_sleep), and the next cycle's t0 = time.time() and fetches
Main_Sleep ==
    /\ mpc = "sleep"
    /\ cycle < horizon
    /\ \E d \in CycleTimes : last_poll_time' = Some(Val(last_poll_time) + d)
    /\ cycle' = cycle + 1
    /\ mpc' = "tiles"
    /\ tileIdx' = 1
    /\ merged' = <<>>
    /\ raw' = <<>>
    /\ inCount' = [h \in Hexes |-> 0]
    /\ processed' = <<>>
    /\ sent' = <<>>
    /\ new_rows' = <<>>
    /\ firstCycle' = FALSE
    /\ firstTile' = [h \in Hexes |-> None]
    /\ UNCHANGED <<seenCycle, horizon, unsavedAt>>
    /\ UNCHANGED <<cfgVars, csvFile, seen_csv, seen_runtime, runs, procCount,
                   rowsAtStart, appendFailed, nonCy>>

\* the process is interrupted between two cycles and started again:
\* seen_csv = load_seen_csv(args.csv); seen_runtime = {}; last_poll_time = None
Main_Restart ==
    /\ mpc = "sleep"
    /\ cycle < horizon
    /\ runs < MaxRuns
    /\ runs' = runs + 1
    /\ seen_csv' = load_seen_csv(csvFile)
    /\ seen_runtime' = [h \in Hexes |-> None]
    /\ last_poll_time' = None
    /\ cycle' = cycle + 1
    /\ mpc' = "tiles"
    /\ tileIdx' = 1
    /\ merged' = <<>>
    /\ raw' = <<>>
    /\ inCount' = [h \in Hexes |-> 0]
    /\ processed' = <<>>
    /\ sent' = <<>>
    /\ new_rows' = <<>>
    /\ procCount' = [h \in Hexes |-> 0]
    /\ rowsAtStart' = Len(csvFile.rows)
    /\ appendFailed' = FALSE
    /\ firstCycle' = TRUE
    /\ seenCycle' = [h \in Hexes |-> 0]
    /\ firstTile' = [h \in Hexes |-> None]
    /\ unsavedAt' = [h \in Hexes |-> 0]
    /\ UNCHANGED horizon
    /\ UNCHANGED <<cfgVars, csvFile, nonCy>>

\* main up to its loop: the configuration, the store as it is found, an empty memory
InitCycle ==
    /\ polygons_file = Some(Document("polygons", << <<Square, Hole>> >>))
    /\ polygons = << <<Square, Hole>> >>
    /\ \E f \in {<<"include", <<>> >>, <<"include", <<"a*">> >>, <<"exclude", <<"a*">> >>} :
         hex_filter_mode = f[1] /\ hex_patterns = f[2]
    /\ notify_telegram \in BOOLEAN
    /\ csvFile \in {[exists |-> FALSE, rows |-> <<>>], [exists |-> TRUE, rows |-> <<>>]}
    /\ seen_csv = load_seen_csv(csvFile)
    /\ seen_runtime = [h \in Hexes |-> None]
    /\ last_poll_time = None
    /\ mpc = "tiles"
    /\ tileIdx = 1
    /\ merged = <<>>
    /\ raw = <<>>
    /\ cycle = 1
    /\ runs = 0
    /\ processed = <<>>
    /\ sent = <<>>
    /\ new_rows = <<>>
    /\ inCount = [h \in Hexes |-> 0]
    /\ procCount = [h \in Hexes |-> 0]
    /\ rowsAtStart = 0
    /\ appendFailed = FALSE
    /\ firstCycle = TRUE
    /\ seenCycle = [h \in Hexes |-> 0]
    /\ horizon = MaxCycles
    /\ firstTile = [h \in Hexes |-> None]
    /\ unsavedAt = [h \in Hexes |-> 0]

\* main at its first statement after the arguments: the boundary file is not yet read
InitLoad ==
    /\ polygons_file \in PolygonFiles
    /\ polygons = <<>>
    /\ hex_patterns = <<>>
    /\ hex_filter_mode = "include"
    /\ notify_telegram = FALSE
    /\ csvFile = [exists |-> FALSE, rows |-> <<>>]
    /\ seen_csv = {}
    /\ seen_runtime = [h \in Hexes |-> None]
    /\ last_poll_time = None
    /\ mpc = "start"
    /\ tileIdx = 1
    /\ merged = <<>>
    /\ raw = <<>>
    /\ cycle = 1
    /\ runs = 0
    /\ processed = <<>>
    /\ sent = <<>>
    /\ new_rows = <<>>
    /\ inCount = [h \in Hexes |-> 0]
    /\ procCount = [h \in Hexes |-> 0]
    /\ rowsAtStart = 0
    /\ appendFailed = FALSE
    /\ firstCycle = TRUE
    /\ seenCycle = [h \in Hexes |-> 0]
    /\ horizon = MaxCycles
    /\ firstTile = [h \in Hexes |-> None]
    /\ unsavedAt = [h \in Hexes |-> 0]

\* main up to its loop, followed for LongCycles cycles: no hex filter, no
\* notifications, no store yet
InitLong ==
    /\ polygons_file = Some(Document("polygons", << <<Square, Hole>> >>))
    /\ polygons = << <<Square, Hole>> >>
    /\ hex_patterns = <<>>
    /\ hex_filter_mode = "include"
    /\ notify_telegram = FALSE
    /\ csvFile = [exists |-> FALSE, rows |-> <<>>]
    /\ seen_csv = {}
    /\ seen_runtime = [h \in Hexes |-> None]
    /\ last_poll_time = None
    /\ mpc = "tiles"
    /\ tileIdx = 1
    /\ merged = <<>>
    /\ raw = <<>>
    /\ cycle = 1
    /\ runs = 0
    /\ processed = <<>>
    /\ sent = <<>>
    /\ new_rows = <<>>
    /\ inCount = [h \in Hexes |-> 0]
    /\ procCount = [h \in Hexes |-> 0]
    /\ rowsAtStart = 0
    /\ appendFailed = FALSE
    /\ firstCycle = TRUE
    /\ seenCycle = [h \in Hexes |-> 0]
    /\ horizon = LongCycles
    /\ firstTile = [h \in Hexes |-> None]
    /\ unsavedAt = [h \in Hexes |-> 0]

\* the polling loop is not in use
IdleCycle ==
    /\ polygons_file = None
    /\ polygons = <<>>
    /\ hex_patterns = <<>>
    /\ hex_filter_mode = "include"
    /\ notify_telegram = FALSE
    /\ csvFile = [exists |-> FALSE, rows |-> <<>>]
    /\ seen_csv = {}
    /\ seen_runtime = [h \in Hexes |-> None]
    /\ last_poll_time = None
    /\ mpc = "off"
    /\ tileIdx = 1
    /\ merged = <<>>
    /\ raw = <<>>
    /\ cycle = 0
    /\ runs = 0
    /\ processed = <<>>
    /\ sent = <<>>
    /\ new_rows = <<>>
    /\ inCount = [h \in Hexes |-> 0]
    /\ procCount = [h \in Hexes |-> 0]
    /\ rowsAtStart = 0
    /\ appendFailed = FALSE
    /\ firstCycle = FALSE
    /\ seenCycle = [h \in Hexes |-> 0]
    /\ horizon = 0
    /\ firstTile = [h \in Hexes |-> None]
    /\ unsavedAt = [h \in Hexes |-> 0]

InitProcs ==
    /\ pc = [p \in Procs |-> "idle"]
    /\ kind = [p \in Procs |-> "tile"]
    /\ wake = [p \in Procs |-> 0]
    /\ attempt = [p \in Procs |-> 0]
    /\ result = [p \in Procs |-> None]
    /\ escaped = [p \in Procs |-> FALSE]
    /\ okBody = [p \in Procs |-> None]
    /\ reqSince = [p \in Procs |-> 0]
    /\ retAge = None
    /\ retGap = None
    /\ writeGap = None

(***************************************************************************)
(* The end of a cycle: elapsed = time.time() - t0;                         *)
(* to_sleep = max(1, args.interval - int(elapsed)); time.sleep(to_sleep).  *)
(* interval and to_sleep are in seconds, elapsed in centiseconds.          *)
(***************************************************************************)
MaxInterval == 6
MaxElapsed == 800

\* --interval is parsed with type=int, and nothing keeps it positive
Intervals == (0 - 2)..MaxInterval
Elapseds == 0..MaxElapsed

int_rounded(cs) == (cs + 50) \div 100

\* int(x) of a float: the fraction is dropped, towards zero
int_of(cs) == IF cs >= 0 THEN cs \div 100 ELSE 0 - ((0 - cs) \div 100)

\* max(1, args.interval - int(elapsed))
sleep_of(i, e) == Max(1, i - int_of(e))

\* to_sleep is computed, time.sleep(to_sleep) returns when that time is over, and the
\* loop begins the next cycle with t0 = time.time()
Main_EndOfCycle ==
    /\ IsSome(elapsed)
    /\ IsNone(to_sleep)
    /\ to_sleep' = Some(sleep_of(interval, Val(elapsed)))
    /\ next_t0' = Some(Val(elapsed) + 100 * sleep_of(interval, Val(elapsed)))
    /\ UNCHANGED <<interval, elapsed, nonSl>>

InitSleep ==
    /\ interval \in Intervals
    /\ elapsed \in {Some(e) : e \in Elapseds}
    /\ to_sleep = None
    /\ next_t0 = None

\* no cycle is ending
IdleSleep ==
    /\ interval = 0
    /\ elapsed = None
    /\ to_sleep = None
    /\ next_t0 = None

\* The lock file outlives every run: absent, or holding an older timestamp
InitLockFile ==
    /\ lockHolder = 0
    /\ lockFile \in {None, Some(TickSmall), Some(RATE_MIN_CS)}

\* Concurrent instances of the program on one host
InitRL ==
    /\ InitLockFile
    /\ InitProcs
    /\ active = Procs
    /\ feed = [k \in {"tile", "mil"} |-> IF k = "tile" THEN {Body("nokey", <<>>)} ELSE {}]

\* Concurrent instances started on a host where an earlier instance has left its
\* timestamp in the lock file
InitCrash ==
    /\ lockHolder = 0
    /\ lockFile \in {Some(TickSmall), Some(RATE_MIN_CS)}
    /\ InitProcs
    /\ active = Procs
    /\ feed = [k \in {"tile", "mil"} |-> IF k = "tile" THEN {Body("nokey", <<>>)} ELSE {}]

\* One instance, against every response body
InitFetch ==
    /\ InitLockFile
    /\ InitProcs
    /\ active = {1}
    /\ feed = [k \in {"tile", "mil"} |-> IF k = "tile" THEN TileBodies ELSE MilBodies]

\* No process runs
IdleRL ==
    /\ lockHolder = 0
    /\ lockFile = None
    /\ InitProcs
    /\ active = {}
    /\ feed = [k \in {"tile", "mil"} |-> {}]

\* the feed the cycles poll
InitCycleFeed ==
    /\ lockHolder = 0
    /\ lockFile = None
    /\ InitProcs
    /\ active = {}
    /\ feed = [k \in {"tile", "mil"} |->
                 IF k = "tile" THEN {Body("aircraft", r) : r \in TileLists}
                 ELSE {Body("ac", r) : r \in MilLists}]

\* a feed whose responses carry malformed records
MalformedTileLists == {<<RawA>>, <<RawStrFields>>, <<RawX, RawNotObject>>, <<RawHexNum>>, <<RawAltInf>>}
MalformedMilLists == {<<RawB>>, <<RawNotObject, RawB>>}

InitMalformedFeed ==
    /\ lockHolder = 0
    /\ lockFile = None
    /\ InitProcs
    /\ active = {}
    /\ feed = [k \in {"tile", "mil"} |->
                 IF k = "tile" THEN {Body("aircraft", r) : r \in MalformedTileLists}
                 ELSE {Body("ac", r) : r \in MalformedMilLists}]

\* a feed in which one aircraft comes and goes
LongTileLists == {<<RawA>>, <<RawA2>>}
LongMilLists == {<<RawB>>}

InitLongFeed ==
    /\ lockHolder = 0
    /\ lockFile = None
    /\ InitProcs
    /\ active = {}
    /\ feed = [k \in {"tile", "mil"} |->
                 IF k = "tile" THEN {Body("aircraft", r) : r \in LongTileLists}
                 ELSE {Body("ac", r) : r \in LongMilLists}]

NextRL ==
    \/ \E p \in Procs : Fetch_Call(p)
    \/ \E p \in Procs : Guard_Lock(p)
    \/ \E p \in Procs : Guard_Read(p)
    \/ \E p \in Procs : Guard_Wake(p)
    \/ \E p \in Procs : Guard_Write(p)
    \/ \E p \in Procs : Guard_Unlock(p)
    \/ \E p \in Procs : Guard_Return(p)
    \/ \E p \in Procs : Fetch_Attempt(p)
    \/ \E p \in Procs : Fetch_BackoffWake(p)
    \/ \E p \in Procs : Fetch_Return(p)
    \/ Tick

NextCrash ==
    \/ \E p \in Procs : Fetch_Call(p)
    \/ \E p \in Procs : Guard_Lock(p)
    \/ \E p \in Procs : Guard_Read(p)
    \/ \E p \in Procs : Guard_Wake(p)
    \/ \E p \in Procs : Guard_Write(p)
    \/ \E p \in Procs : Guard_Unlock(p)
    \/ \E p \in Procs : Guard_Return(p)
    \/ \E p \in Procs : Guard_Crash(p)
    \/ Tick

NextGeo == Geo_Contains

NextAnom == Anom_Classify

NextSleep == Main_EndOfCycle

NextCycle ==
    \/ Main_FetchTile
    \/ Main_FetchMilitary
    \/ Main_Process
    \/ Main_Sleep
    \/ Main_Restart

NextMalformed ==
    \/ Main_FetchTile
    \/ Main_FetchMilitary
    \/ Main_Process
    \/ Main_ParseCrash
    \/ Main_Sleep
    \/ Main_Restart

NextLoad ==
    \/ Main_LoadPolygons
    \/ Main_FetchTile
    \/ Main_FetchMilitary
    \/ Main_Process
    \/ Main_Sleep
    \/ Main_Restart

NextDelta ==
    \/ Anom_Classify
    \/ Main_FetchTile
    \/ Main_FetchMilitary
    \/ Main_Process
    \/ Main_Sleep
    \/ Main_Restart

InitSpecSleep == InitSleep /\ IdleRL /\ IdleGeo /\ IdleAnom /\ IdleCycle
InitSpecRL == InitRL /\ IdleGeo /\ IdleAnom /\ IdleCycle /\ IdleSleep
InitSpecCrash == InitCrash /\ IdleGeo /\ IdleAnom /\ IdleCycle /\ IdleSleep
InitSpecFetch == InitFetch /\ IdleGeo /\ IdleAnom /\ IdleCycle /\ IdleSleep
InitSpecRetry == InitFetch /\ IdleGeo /\ IdleAnom /\ IdleCycle /\ IdleSleep
InitSpecGeo == InitGeo /\ IdleRL /\ IdleAnom /\ IdleCycle /\ IdleSleep
InitSpecAnom == InitAnom /\ IdleRL /\ IdleGeo /\ IdleCycle /\ IdleSleep
InitSpecCycle == InitCycle /\ InitCycleFeed /\ IdleGeo /\ IdleAnom /\ IdleSleep
InitSpecDelta == InitSpecAnom \/ InitSpecCycle
InitSpecLoad == InitLoad /\ InitCycleFeed /\ IdleGeo /\ IdleAnom /\ IdleSleep
InitSpecLong == InitLong /\ InitLongFeed /\ IdleGeo /\ IdleAnom /\ IdleSleep
InitSpecMalformed == InitCycle /\ InitMalformedFeed /\ IdleGeo /\ IdleAnom /\ IdleSleep

\* Concurrent instances of the program calling the fetchers back to back
SpecRL == InitSpecRL /\ [][NextRL]_vars

\* Every running process takes its next step of api_rate_guard, time passes, and
\* flock grants the lock to a waiting process that finds it free again and again
FairCrash ==
    /\ WF_vars(Tick)
    /\ \A p \in Procs :
         /\ SF_vars(Guard_Lock(p))
         /\ WF_vars(Guard_Read(p))
         /\ WF_vars(Guard_Wake(p))
         /\ WF_vars(Guard_Write(p))
         /\ WF_vars(Guard_Unlock(p))
         /\ WF_vars(Guard_Return(p))

\* Concurrent instances, any of which may die inside api_rate_guard, followed from
\* their call of a fetcher to the return of its api_rate_guard
SpecCrash == InitSpecCrash /\ [][NextCrash]_vars /\ FairCrash

\* The end of a cycle for every interval and every duration of the cycle
SpecSleep == InitSpecSleep /\ [][NextSleep]_vars

\* One instance calling the fetchers against every response body
SpecFetch == InitSpecFetch /\ [][NextRL]_vars

\* The process goes on with its retry loop: an attempt ends (requests.get has a
\* timeout), and a sleep that is over returns
FairRetry ==
    /\ FairCrash
    /\ \A p \in Procs :
         /\ WF_vars(Fetch_Attempt(p))
         /\ WF_vars(Fetch_BackoffWake(p))

\* One instance calling the fetchers, which never stops on its own
SpecRetry == InitSpecRetry /\ [][NextRL]_vars /\ FairRetry

\* point_in_polygon and in_any_polygon on every point and polygon set
SpecGeo == InitSpecGeo /\ [][NextGeo]_vars

\* detect_anomalies on every sample, previous sample and elapsed time
SpecAnom == InitSpecAnom /\ [][NextAnom]_vars

\* One instance's polling cycles and restarts
SpecCycle == InitSpecCycle /\ [][NextCycle]_vars

\* One instance's polling cycles over a longer run
SpecLong == InitSpecLong /\ [][NextCycle]_vars

\* One instance's polling cycles against responses with malformed records
SpecMalformed == InitSpecMalformed /\ [][NextMalformed]_vars

\* main from the loading of the boundary file on, over every boundary file
SpecLoad == InitSpecLoad /\ [][NextLoad]_vars

\* detect_anomalies on every pair of samples, and as the polling cycles call it
SpecDelta == InitSpecDelta /\ [][NextDelta]_vars

(***************************************************************************)
(* The claims.                                                             *)
(***************************************************************************)
Has(notes, n) == \E i \in 1..Len(notes) : notes[i] = n

\* C1: over all processes and interleavings, the time between any two consecutive
\* returns of api_rate_guard is at least the minimum interval (1.05 s).
C1_ReturnsSpaced == IsSome(retGap) => Val(retGap) >= RATE_MIN_CS

\* C2: a process issues exactly one upstream request after each return of
\* api_rate_guard, retries included: never two requests without a return in between.
C2_OneRequestPerAcquire == \A p \in Procs : reqSince[p] <= 1

\* C3: within one process (the first run, every append having succeeded), a hex that
\* was inside the geofence in two or more cycles, military or not, has exactly one
\* row in the store in total.
C3_OneRowPerHex ==
    (runs = 0 /\ ~appendFailed) =>
        \A h \in Hexes : procCount[h] >= 2 => Carrying(csvFile.rows, h) = 1

\* C4: in the first cycle, on an empty store, a hex carried by two or more raw records
\* of the cycle (two tiles, or a tile and the military feed) is appended at most once.
C4_OnceInCycle ==
    (mpc = "sleep" /\ cycle = 1) =>
        \A h \in Hexes : inCount[h] >= 2 => Carrying(csvFile.rows, h) <= 1

\* C5: after a restart, a hex that has a row among the lines the store held when the
\* run started gets no further row in the run, whatever is observed.
C5_NoRowAfterRestart ==
    runs >= 1 =>
        \A h \in Hexes :
            (\E i \in 1..rowsAtStart : Lower(csvFile.rows[i].hex) = h) =>
                \A i \in (rowsAtStart + 1)..Len(csvFile.rows) : Lower(csvFile.rows[i].hex) # h

\* the records of a successful response: the "aircraft" list of a tile's body; the
\* "ac" list or the bare list of the military feed, each record tagged force_mil
C6_RecordsOf(k, b, out) ==
    IF k = "tile"
      THEN out = (IF b.shape = "aircraft" THEN b.recs ELSE <<>>)
      ELSE IF b.shape \in {"ac", "list"}
             THEN /\ Len(out) = Len(b.recs)
                  /\ \A i \in 1..Len(out) :
                       /\ out[i].force_mil
                       /\ [out[i] EXCEPT !.force_mil = FALSE] = b.recs[i]
             ELSE out = <<>>

\* C6: when a fetcher returns, no exception has escaped; after a successful attempt
\* (which every transport that fails fewer than HTTP_RETRIES times gets) it returns
\* exactly the records of that response; it returns the empty list without a
\* success only after at least HTTP_RETRIES failures, and then the list is empty.
C6_RetryOutcome ==
    \A p \in Procs :
        pc[p] = "done" =>
            /\ ~escaped[p]
            /\ IsSome(result[p])
            /\ IsSome(okBody[p]) => C6_RecordsOf(kind[p], Val(okBody[p]), Val(result[p]))
            /\ IsNone(okBody[p]) => Val(result[p]) = <<>> /\ attempt[p] >= HTTP_RETRIES

\* C6 witness: the military fetcher returned two tagged records after one failure
C6_Witness ==
    \E p \in Procs :
        /\ pc[p] = "done" /\ kind[p] = "mil" /\ attempt[p] = 1
        /\ IsSome(okBody[p]) /\ Len(Val(result[p])) = 2

\* the even-odd answer stated on the regions: inside ring 1, outside every other ring
C7_Inside(polygon, la, lo) ==
    /\ polygon # <<>>
    /\ Encloses(polygon[1], la, lo)
    /\ \A k \in 2..Len(polygon) : ~Encloses(polygon[k], la, lo)

\* C7: for every polygon and every point not on a ring edge, point_in_polygon is true
\* exactly when the point is inside the exterior ring and outside every hole; a
\* polygon without rings contains no point.
C7_Contains ==
    (IsSome(gEach) /\ IsSome(gLat) /\ IsSome(gLon)) =>
        \A i \in 1..Len(gPolys) :
            ~OnPolygonEdge(gPolys[i], Val(gLat), Val(gLon)) =>
                Val(gEach)[i] = C7_Inside(gPolys[i], Val(gLat), Val(gLon))

\* C7 witness: (5,5) is in the hole of the square with a hole, and not contained
C7_Witness ==
    /\ IsSome(gEach) /\ gLat = Some(5) /\ gLon = Some(5)
    /\ Len(gPolys) = 1 /\ gPolys[1] = <<Square, Hole>>
    /\ Val(gEach)[1] = FALSE

\* C8: in_any_polygon is true exactly when both coordinates are present and
\* point_in_polygon is true of some polygon of the set: false over the empty set and
\* with a missing coordinate, point_in_polygon's answer over a set of one.
C8_ContainsAny ==
    IsSome(gAny) =>
        /\ Val(gAny) = (/\ IsSome(gLat) /\ IsSome(gLon)
                        /\ \E i \in 1..Len(gPolys) : Val(gEach)[i])
        /\ gPolys = <<>> => Val(gAny) = FALSE
        /\ (IsNone(gLat) \/ IsNone(gLon)) => Val(gAny) = FALSE
        /\ (Len(gPolys) = 1 /\ IsSome(gLat) /\ IsSome(gLon)) => Val(gAny) = Val(gEach)[1]

\* C8 witness: the point is outside the first polygon of the set and inside the second
C8_Witness ==
    /\ IsSome(gAny) /\ Len(gPolys) = 2 /\ IsSome(gLat) /\ IsSome(gLon)
    /\ Val(gEach)[1] = FALSE /\ Val(gEach)[2] = TRUE /\ Val(gAny) = TRUE

\* C9: detect_anomalies gives the high ground-speed note exactly for a ground speed
\* above 650, the low one exactly below 35, the altitude notes exactly above 60000 and
\* below 500, each rule whatever the other field is, a missing field giving no note of
\* its own rule only.
C9_Thresholds ==
    IsSome(aNotes) =>
        LET n == Val(aNotes)
        IN  /\ Has(n, "GS alta") <=> (IsSome(aAc.gs) /\ Val(aAc.gs) > 650)
            /\ Has(n, "GS bassa") <=> (IsSome(aAc.gs) /\ Val(aAc.gs) < 35)
            /\ Has(n, "ALT alta") <=> (IsSome(aAc.alt_baro) /\ Val(aAc.alt_baro) > 60000)
            /\ Has(n, "ALT bassa") <=> (IsSome(aAc.alt_baro) /\ Val(aAc.alt_baro) < 500)

\* C9 witness: no ground speed, an altitude above the range: the altitude note alone
C9_Witness ==
    /\ IsSome(aNotes) /\ IsNone(aAc.gs) /\ aAc.alt_baro = Some(61000) /\ IsNone(aPrev)
    /\ Val(aNotes) = <<"ALT alta">>

C10_NoDeltaNote(n) == ~Has(n, "dGS anomalo") /\ ~Has(n, "VS anomala")

\* C10: detect_anomalies gives no ground-speed-change and no vertical-rate note
\* without a previous sample or without a positive elapsed time; with both, the
\* vertical-rate note exactly when |dalt / dt * 60| > 8000 and the ground-speed-change
\* note exactly when |dgs| > 250.  The first cycle after the process starts gives no
\* such note for any hex, those already in the store included.
C10_DeltaRules ==
    /\ IsSome(aNotes) =>
          LET n == Val(aNotes)
              both == IsSome(aPrev) /\ IsSome(aDt) /\ Val(aDt) > 0
          IN  /\ ~both => C10_NoDeltaNote(n)
              /\ both =>
                    /\ Has(n, "dGS anomalo") <=>
                          (/\ IsSome(aAc.gs) /\ IsSome(Val(aPrev).gs)
                           /\ Abs(Val(aAc.gs) - Val(Val(aPrev).gs)) > 250)
                    /\ Has(n, "VS anomala") <=>
                          (/\ IsSome(aAc.alt_baro) /\ IsSome(Val(aPrev).alt_baro)
                           /\ Abs(Val(aAc.alt_baro) - Val(Val(aPrev).alt_baro)) * 60 * 100
                                > 8000 * Val(aDt))
    /\ (mpc = "sleep" /\ firstCycle) =>
          \A k \in 1..Len(processed) : C10_NoDeltaNote(processed[k].notes)

\* C10 witness: a1 was stored by the first run at 400 kt and 10000 ft; the first cycle
\* after the restart sees it at 700 kt and 18100 ft and notes the ground speed only
C10_Witness ==
    /\ mpc = "sleep" /\ firstCycle /\ runs = 1
    /\ \E i \in 1..rowsAtStart : csvFile.rows[i] = Row("a1", <<>>)
    /\ \E k \in 1..Len(processed) :
          /\ processed[k].hex = "a1" /\ ~processed[k].isNew
          /\ processed[k].notes = <<"GS alta">>

\* C11: from an empty store, a first cycle whose responses carry one record in all,
\* from a tile, for a hex inside the polygon at 400 kt and 10000 ft (the hex filter,
\* if any, letting it pass, and the append succeeding) leaves exactly one row for the
\* hex in the store, with an empty note, and with notifications enabled exactly one
\* call of send_telegram.
C11_FirstSighting ==
    (/\ mpc = "sleep" /\ cycle = 1 /\ raw = <<RawA>> /\ inCount["a1"] = 1
     /\ passes_hex_filter(to_aircraft(RawA)) /\ ~appendFailed) =>
        /\ Carrying(csvFile.rows, "a1") = 1
        /\ \E i \in 1..Len(csvFile.rows) : csvFile.rows[i] = Row("a1", <<>>)
        /\ notify_telegram => Len(sent) = 1
        /\ ~notify_telegram => sent = <<>>

\* C11 witness: the store was absent; it now holds the header and the row of a1, and
\* one text was sent
C11_Witness ==
    /\ mpc = "sleep" /\ cycle = 1 /\ raw = <<RawA>> /\ inCount["a1"] = 1
    /\ notify_telegram /\ sent = <<[text |-> "NUOVO CONTATTO", hex |-> "a1"]>>
    /\ csvFile = [exists |-> TRUE, rows |-> <<HeaderRow, Row("a1", <<>>)>>]

C12_SentFor(text, hx) == \E i \in 1..Len(sent) : sent[i] = [text |-> text, hex |-> hx]

\* C12: after the loop of a cycle with notifications enabled, send_telegram has been
\* called for a processed sample exactly when its hex was not in seen_csv (the
\* new-contact text) or it is military-flagged (the military text); a sample that is
\* neither has no call and no row in new_rows.  With notifications disabled nothing
\* is sent.
C12_Dispatch ==
    mpc = "sleep" =>
        /\ ~notify_telegram => sent = <<>>
        /\ \A k \in 1..Len(processed) :
              LET e == processed[k]
              IN  /\ notify_telegram =>
                        /\ (\E i \in 1..Len(sent) : sent[i].hex = e.hex) <=> (e.isNew \/ e.is_mil)
                        /\ C12_SentFor("NUOVO CONTATTO", e.hex) <=> e.isNew
                        /\ C12_SentFor("VOLO MILITARE", e.hex) <=> e.is_mil
                  /\ (~e.isNew /\ ~e.is_mil) => Carrying(new_rows, e.hex) = 0

\* C12 witness: in a second cycle a1 (known, civil) and b2 (known, military) are both
\* processed: the military text for b2 is the only one sent, and a1 has no row
C12_Witness ==
    /\ mpc = "sleep" /\ notify_telegram /\ ~firstCycle
    /\ \E k \in 1..Len(processed) :
          processed[k].hex = "a1" /\ ~processed[k].isNew /\ ~processed[k].is_mil
    /\ sent = <<[text |-> "VOLO MILITARE", hex |-> "b2"]>>
    /\ Carrying(new_rows, "a1") = 0

\* C13: the polling loop never runs with an empty set of polygons, whatever the
\* boundary file (none, unreadable, unrecognized, or a recognized document).
C13_GeofenceNonEmpty == mpc \in {"tiles", "mil", "process", "sleep"} => polygons # <<>>

\* C14: no malformed record of a successfully fetched response aborts a cycle:
\* fetch_all_tiles, fetch_military, to_aircraft and the loop body raise nothing, and
\* the process never ends on an exception.
C14_NoAbort == mpc # "crashed"

\* C15: whenever a delta rule is evaluated for a hex in a cycle (there is a previous
\* sample and a positive elapsed time), the previous sample was observed in the cycle
\* just before; a hex that was not processed in the cycle before gets no delta check.
C15_PrevFromLastCycle ==
    mpc = "sleep" =>
        \A k \in 1..Len(processed) :
            (/\ processed[k].hadPrev
             /\ IsSome(processed[k].dt) /\ Val(processed[k].dt) > 0) =>
                processed[k].prevCycle = cycle - 1

\* the records of raw that came from the military feed
C16_MilitaryPart == SubSeq(raw, Len(merged) + 1, Len(raw))

\* the samples of a hex that reach by_hex: that of the first tile record carrying the
\* hex and those of the military feed's records for it, in this order, less those the
\* geofence and the hex filter drop
C16_Candidates(h) ==
    LET recs == (IF IsSome(firstTile[h]) THEN <<Val(firstTile[h])>> ELSE <<>>)
                \o SelectSeq(C16_MilitaryPart, LAMBDA r : Lower(r.hex) = h)
    IN  SelectSeq([i \in 1..Len(recs) |-> to_aircraft(recs[i])],
                  LAMBDA ac : passes_polygons(ac) /\ passes_hex_filter(ac))

\* C16, as the code has it: among the tile responses the first record carrying a hex
\* wins; the military feed's records are added without deduplication, and of the
\* tile's sample and the military samples of a hex that pass the filters the last one
\* is the single sample processed for the hex in the cycle.
C16_MergeOrder ==
    mpc = "sleep" =>
        \A h \in Hexes :
            LET c == C16_Candidates(h)
                n == Cardinality({k \in 1..Len(processed) : processed[k].hex = h})
            IN  /\ n = (IF c = <<>> THEN 0 ELSE 1)
                /\ c # <<>> => seen_runtime[h] = Some(c[Len(c)])

\* C16 witness: a tile and the military feed both carry a1; the sample processed is
\* the military feed's
C16_Witness ==
    /\ mpc = "sleep" /\ firstTile["a1"] = Some(RawA)
    /\ C16_MilitaryPart = <<[RawA EXCEPT !.force_mil = TRUE]>>
    /\ \E k \in 1..Len(processed) : processed[k].hex = "a1" /\ processed[k].is_mil
    /\ seen_runtime["a1"] = Some(to_aircraft([RawA EXCEPT !.force_mil = TRUE]))

\* C16, as stated: for a hex carried by two or more raw records of the cycle's
\* responses (the tiles in order, then the military feed), the sample processed is
\* the one of the first record carrying the hex.
C16_FirstWins ==
    mpc = "sleep" =>
        \A k \in 1..Len(processed) :
            LET h == processed[k].hex
                first == IF IsSome(firstTile[h]) THEN firstTile[h]
                         ELSE first_carrying(C16_MilitaryPart, h)
            IN  inCount[h] >= 2 => seen_runtime[h] = Some(to_aircraft(Val(first)))

\* C17: when the append at the end of a cycle fails, every hex queued in that cycle is
\* in seen_csv afterwards, and the later cycles of the same process neither append a
\* row for it nor send a new-contact text for it.
C17_NoRollback ==
    \A h \in Hexes :
        unsavedAt[h] # 0 =>
            /\ h \in seen_csv
            /\ (mpc = "sleep" /\ cycle > unsavedAt[h]) =>
                  /\ Carrying(new_rows, h) = 0
                  /\ ~C12_SentFor("NUOVO CONTATTO", h)

\* C18: at most one process is between flock(LOCK_EX) and flock(LOCK_UN), a process
\* sleeping in api_rate_guard holds the lock, a write replaces a stored timestamp only
\* when that one is at least 1.05 s old, and a process that found no parsable timestamp
\* does not sleep.
C18_InSection(p) == pc[p] \in {"read", "gsleep", "write", "unlock"}

C18_CriticalSection ==
    /\ \A p, q \in Procs : (C18_InSection(p) /\ C18_InSection(q)) => p = q
    /\ \A p \in Procs : C18_InSection(p) <=> lockHolder = p
    /\ \A p \in Procs : pc[p] = "gsleep" => IsSome(lockFile)
    /\ IsSome(writeGap) => Val(writeGap) >= RATE_MIN_CS

C18_Witness ==
    /\ IsSome(writeGap)
    /\ \E p, q \in Procs : pc[p] = "gsleep" /\ wake[p] > 0 /\ pc[q] = "lock"

\* C19: a dead process never holds the lock, and every process that enters
\* api_rate_guard returns from it unless it dies.
C19_Progress ==
    /\ [](\A p \in Procs : pc[p] = "crashed" => lockHolder # p)
    /\ \A p \in Procs : (pc[p] = "lock") ~> (pc[p] \in {"attempt", "crashed"})

\* the lock file is empty, which only a death between truncate and flush, under the
\* lock, brings about, and another process has been granted the lock since
C19_Witness ==
    \E p, q \in Procs :
        /\ pc[p] = "crashed"
        /\ IsNone(lockFile)
        /\ pc[q] = "read" /\ lockHolder = q

\* C20: the sleep at the end of a cycle is the larger of one second and the interval
\* less the whole seconds the cycle took, so never under one second; and after a cycle
\* that took less than interval - 1 seconds the next cycle begins at least interval and
\* less than interval + 1 seconds after this one began.
C20_WholeSeconds(e) == CHOOSE n \in 0..(e + 1) : n * 100 <= e /\ e < (n + 1) * 100

C20_CycleSleep ==
    IsSome(to_sleep) =>
        /\ Val(to_sleep) = (IF interval - C20_WholeSeconds(Val(elapsed)) > 1
                              THEN interval - C20_WholeSeconds(Val(elapsed)) ELSE 1)
        /\ Val(to_sleep) >= 1
        /\ Val(elapsed) < (interval - 1) * 100 =>
              /\ Val(next_t0) >= interval * 100
              /\ Val(next_t0) < (interval + 1) * 100

C20_Witness ==
    /\ IsSome(to_sleep) /\ Val(to_sleep) > 1
    /\ Val(elapsed) < (interval - 1) * 100
    /\ Val(elapsed) % 100 # 0
    /\ Val(next_t0) > interval * 100

\* C21: a call of a fetcher issues at most HTTP_RETRIES + 1 requests and ends; a
\* failed attempt that is not the last is followed by a sleep of HTTP_BACKOFF times
\* the number of attempts failed so far, and the next attempt begins when that sleep
\* is over; the last failed attempt ends the call at once; and after an attempt that
\* succeeded the call issues no request.
C21_Counts ==
    \A p \in Procs :
        /\ reqSince[p] <= HTTP_RETRIES + 1
        /\ attempt[p] <= HTTP_RETRIES + 1
        /\ pc[p] \in {"attempt", "backoff"} => attempt[p] <= HTTP_RETRIES /\ IsNone(okBody[p])
        /\ pc[p] = "backoff" => attempt[p] >= 1 /\ wake[p] <= HTTP_BACKOFF_CS * attempt[p]
        /\ IsSome(okBody[p]) => pc[p] = "done"
        /\ (pc[p] = "done" /\ IsNone(okBody[p])) => attempt[p] = HTTP_RETRIES + 1

C21_Step ==
    \A p \in Procs :
        /\ (pc[p] = "attempt" /\ pc'[p] = "backoff") =>
              /\ attempt'[p] = attempt[p] + 1
              /\ wake'[p] = HTTP_BACKOFF_CS * attempt'[p]
        /\ (pc[p] = "backoff" /\ pc'[p] # "backoff") => pc'[p] = "attempt" /\ wake[p] = 0
        /\ (pc[p] = "attempt" /\ attempt[p] = HTTP_RETRIES /\ attempt'[p] # attempt[p]) =>
              pc'[p] = "done" /\ wake'[p] = 0
        /\ reqSince'[p] > reqSince[p] => pc[p] = "attempt"

C21_BoundedRetry ==
    /\ []C21_Counts
    /\ [][C21_Step]_vars
    /\ \A p \in Procs : (pc[p] = "lock") ~> (pc[p] = "done")

C21_Witness ==
    \E p \in Procs :
        /\ pc[p] = "done" /\ IsNone(okBody[p])
        /\ attempt[p] = HTTP_RETRIES + 1 /\ reqSince[p] = HTTP_RETRIES + 1

\* C22: between two cycles every hex with a row in the store is in seen_csv; while the
\* process runs seen_csv loses no hex; and no row of the store has an empty hex.
C22_StoredHexes ==
    {Lower(csvFile.rows[i].hex) :
        i \in {j \in 1..Len(csvFile.rows) : csvFile.rows[j] # HeaderRow}}

C22_StoreInView == mpc = "sleep" \/ (mpc = "tiles" /\ tileIdx = 1) => C22_StoredHexes \subseteq seen_csv

C22_ViewKeeps == runs' = runs => seen_csv \subseteq seen_csv'

C22_NoEmptyHex == \A i \in 1..Len(csvFile.rows) : csvFile.rows[i].hex # ""

C22_DedupState ==
    /\ []C22_StoreInView
    /\ [][C22_ViewKeeps]_vars
    /\ []C22_NoEmptyHex

====
